---- MODULE Spec2Model ----
(***************************************************************************)
(* A model of dottedmag/control (src/main.go): a post-deployment checker   *)
(* that queries a fixed list of nameservers for every (name, type) group   *)
(* of expected DNS records and compares the answers with the expectation.  *)
(*                                                                         *)
(* Three specifications share the definitions below:                       *)
(*   Spec       main() and its concurrently running checkRecord workers    *)
(*   SpecGroup  main()'s grouping and launching loops over richer inputs   *)
(*   SpecCheck  doCheckRecord applied to one group and one exchange        *)
(*                                                                         *)
(* Go strings are TLA+ strings, except the TXT character-strings, which    *)
(* are sequences of byte values so that the NUL separator can occur in     *)
(* them.  Slices are sequences (1-based), Go maps used as sets are sets.   *)
(***************************************************************************)
EXTENDS Integers, Sequences, FiniteSets, TLC

VARIABLES
    stdin,              \* what standard input delivers to io.ReadAll
    data,               \* main: data.Domains, the parsed input
    pc,                 \* main: position in main()
    di,                 \* main: index of the domain of the outer loop
    recordsByNameType,  \* main: the map built for the current domain
    pending,            \* main: (key, ns index) launches left in the range loops
    wg,                 \* the WaitGroup counter
    failed,             \* the atomic.Bool failed
    workers,            \* the goroutines started by `go checkRecord(...)`
    stdout,             \* what was written to standard output, in order
    stderr,             \* what was written to standard error, in order
    exitCode,           \* the process exit status, -1 while running
    chk                 \* SpecCheck: one call of doCheckRecord

vars == <<stdin, data, pc, di, recordsByNameType, pending, wg, failed, workers,
          stdout, stderr, exitCode, chk>>

(***************************************************************************)
(* Bounds of the model.                                                    *)
(***************************************************************************)
MaxGroup == 2       \* SpecCheck: records in the expected group
MaxAnswers == 2     \* SpecCheck: records in the answer section
MaxRecords == 2     \* Spec: records in the whole input
MaxGroupRecords == 3 \* SpecGroup: records of the domain

(***************************************************************************)
(* Small helpers over sequences and sets.                                  *)
(***************************************************************************)
Range(s) == {s[i] : i \in 1..Len(s)}

Min(S) == CHOOSE x \in S : \A y \in S : x <= y

RECURSIVE SeqsUpTo(_, _)
SeqsUpTo(S, n) ==
    IF n = 0 THEN {<<>>}
    ELSE LET shorter == SeqsUpTo(S, n - 1)
         IN  shorter \cup {Append(s, x) : s \in {t \in shorter : Len(t) = n - 1}, x \in S}

Perms(n) == {p \in [1..n -> 1..n] : \A i, j \in 1..n : p[i] = p[j] => i = j}

Permuted(s, p) == [i \in 1..Len(s) |-> s[p[i]]]

(***************************************************************************)
(* The program's constants and record types.                               *)
(***************************************************************************)
nss == <<"8.8.8.8:53", "1.1.1.1:53">>

NUL == 0

\* type record struct
record(Type, Name, TTL, Target, CAATag, MXPreference, TXTStrings) ==
    [Type |-> Type, Name |-> Name, TTL |-> TTL, Target |-> Target,
     CAATag |-> CAATag, MXPreference |-> MXPreference, TXTStrings |-> TXTStrings]

\* dns.RR: the header's Rrtype and Ttl and the payload fields of the six
\* record types read by the checks; fields of other types hold Go zero values.
RR(Rrtype, Ttl) ==
    [Rrtype |-> Rrtype, Ttl |-> Ttl, A |-> <<>>, AAAA |-> <<>>, Target |-> "",
     Tag |-> "", Value |-> "", Preference |-> 0, Mx |-> "", Txt |-> <<>>]

\* error values: nil, the errors built with fmt.Errorf, and a run-time panic
Nil == [kind |-> "nil"]
QueryError(why) == [kind |-> "QueryError", why |-> why]
CountMismatch(expected, actual) ==
    [kind |-> "CountMismatch", expected |-> expected, actual |-> actual]
TTLExceeded(ceiling, actual) ==
    [kind |-> "TTLExceeded", ceiling |-> ceiling, actual |-> actual]
WrongType(expected, actual) ==
    [kind |-> "WrongType", expectedType |-> expected, actualType |-> actual]
ValueMismatch(expected, actual) ==
    [kind |-> "ValueMismatch", expectedValues |-> expected, actualValues |-> actual]
UnsupportedType == [kind |-> "UnsupportedType"]
IndexOutOfRange(i, n) == [kind |-> "panic", index |-> i, len |-> n]

(***************************************************************************)
(* net.IP.String(), used for the A and AAAA comparison keys.               *)
(***************************************************************************)
HexDigit(d) ==
    CASE d = 0 -> "0" [] d = 1 -> "1" [] d = 2 -> "2" [] d = 3 -> "3"
      [] d = 4 -> "4" [] d = 5 -> "5" [] d = 6 -> "6" [] d = 7 -> "7"
      [] d = 8 -> "8" [] d = 9 -> "9" [] d = 10 -> "a" [] d = 11 -> "b"
      [] d = 12 -> "c" [] d = 13 -> "d" [] d = 14 -> "e" [] d = 15 -> "f"

RECURSIVE Itoa(_, _)
Itoa(n, base) ==
    IF n < base THEN HexDigit(n)
    ELSE Itoa(n \div base, base) \o HexDigit(n % base)

\* an IPv4 address is its four octets
IPv4String(ip) ==
    Itoa(ip[1], 10) \o "." \o Itoa(ip[2], 10) \o "." \o Itoa(ip[3], 10)
        \o "." \o Itoa(ip[4], 10)

\* an IPv6 address is its eight 16-bit groups
RECURSIVE ZeroRunEnd(_, _)
ZeroRunEnd(ip, j) ==
    IF j <= 8 /\ ip[j] = 0 THEN ZeroRunEnd(ip, j + 1) ELSE j

\* the longest run of two or more zero groups, the leftmost of equal ones:
\* <<start, end>> with end exclusive, <<0, 0>> when there is none
LongestZeroRun(ip) ==
    LET runs == {i \in 1..8 : ZeroRunEnd(ip, i) - i >= 2}
        len(i) == ZeroRunEnd(ip, i) - i
    IN  IF runs = {} THEN <<0, 0>>
        ELSE LET best == Min({i \in runs : \A k \in runs : len(i) >= len(k)})
             IN  <<best, ZeroRunEnd(ip, best)>>

RECURSIVE IPv6Groups(_, _, _)
IPv6Groups(ip, i, run) ==
    IF i > 8 THEN ""
    ELSE IF i = run[1]
         THEN "::" \o (IF run[2] > 8 THEN ""
                       ELSE Itoa(ip[run[2]], 16) \o IPv6Groups(ip, run[2] + 1, run))
         ELSE (IF i > 1 /\ i # run[2] THEN ":" ELSE "") \o Itoa(ip[i], 16)
                  \o IPv6Groups(ip, i + 1, run)

IPString(ip) ==
    IF Len(ip) = 0 THEN "<nil>"
    ELSE IF Len(ip) = 4 THEN IPv4String(ip)
    ELSE IF \A i \in 1..5 : ip[i] = 0 /\ ip[6] = 65535
         THEN IPv4String(<<ip[7] \div 256, ip[7] % 256, ip[8] \div 256, ip[8] % 256>>)
    ELSE IPv6Groups(ip, 1, LongestZeroRun(ip))

\* strings.Join over byte strings
RECURSIVE Join(_, _)
Join(elems, sep) ==
    IF Len(elems) = 0 THEN <<>>
    ELSE IF Len(elems) = 1 THEN elems[1]
    ELSE elems[1] \o sep \o Join(Tail(elems), sep)

\* uint32(x) of a Go int: the low 32 bits, kept as two 16-bit halves
Uint32(x) == <<(x \div 65536) % 65536, x % 65536>>

Uint32Greater(a, b) == a[1] > b[1] \/ (a[1] = b[1] /\ a[2] > b[2])

(***************************************************************************)
(* query: one exchange with the nameserver.  `exchange` is what            *)
(* client.Exchange(m, ns) returns, which the environment chooses:          *)
(* err ("" for nil), whether a response came back, its Rcode and Answer.   *)
(***************************************************************************)
RcodeSuccess == "NOERROR"

Exchange(err, hasResp, Rcode, Answer) ==
    [err |-> err, hasResp |-> hasResp, Rcode |-> Rcode, Answer |-> Answer]

query(ns, name, queryType, exchange) ==
    IF exchange.err # "" THEN [resp |-> exchange, err |-> QueryError(exchange.err)]
    ELSE IF ~exchange.hasResp
         THEN [resp |-> exchange, err |-> QueryError("empty response")]
    ELSE IF exchange.Rcode # RcodeSuccess
         THEN [resp |-> exchange,
               err |-> QueryError("non-success response " \o exchange.Rcode)]
    ELSE [resp |-> exchange, err |-> Nil]

(***************************************************************************)
(* The type-specific checks.  Each builds the set of expected keys from    *)
(* all expected records, then walks actualRecords[0 .. len(expectedValues))*)
(* asserting the payload type and collecting the actual keys, and compares *)
(* the two maps.  Indexing past the end of actualRecords panics.           *)
(***************************************************************************)
\* the loop `for i := 0; i < len(expectedValues); i++` and maps.Equal;
\* actualKeys[i] is the key the loop body takes from actualRecords[i]
checkLoop(wantType, expectedValues, actualKeys, actualRecords) ==
    LET n == Cardinality(expectedValues)
        stop == {i \in 1..n : \/ i > Len(actualRecords)
                               \/ actualRecords[i].Rrtype # wantType}
    IN  IF stop # {}
        THEN LET i == Min(stop)
             IN  IF i > Len(actualRecords)
                 THEN IndexOutOfRange(i - 1, Len(actualRecords))
                 ELSE WrongType(wantType, actualRecords[i].Rrtype)
        ELSE LET actualValues == {actualKeys[i] : i \in 1..n}
             IN  IF expectedValues # actualValues
                 THEN ValueMismatch(expectedValues, actualValues)
                 ELSE Nil

checkARecord(actualRecords, expectedRecords) ==
    LET expectedValues == {expectedValue.Target : expectedValue \in Range(expectedRecords)}
        keys == [i \in 1..Len(actualRecords) |-> IPString(actualRecords[i].A)]
    IN  checkLoop("A", expectedValues, keys, actualRecords)

checkAAAARecord(actualRecords, expectedRecords) ==
    LET expectedValues == {expectedValue.Target : expectedValue \in Range(expectedRecords)}
        keys == [i \in 1..Len(actualRecords) |-> IPString(actualRecords[i].AAAA)]
    IN  checkLoop("AAAA", expectedValues, keys, actualRecords)

checkCNAMERecord(actualRecords, expectedRecords) ==
    LET expectedValues == {expectedValue.Target : expectedValue \in Range(expectedRecords)}
        keys == [i \in 1..Len(actualRecords) |-> actualRecords[i].Target]
    IN  checkLoop("CNAME", expectedValues, keys, actualRecords)

checkCAARecord(actualRecords, expectedRecords) ==
    LET expectedValues == {[tag |-> expectedValue.CAATag, value |-> expectedValue.Target] :
                              expectedValue \in Range(expectedRecords)}
        keys == [i \in 1..Len(actualRecords) |->
                    [tag |-> actualRecords[i].Tag, value |-> actualRecords[i].Value]]
    IN  checkLoop("CAA", expectedValues, keys, actualRecords)

checkMXRecord(actualRecords, expectedRecords) ==
    LET expectedValues == {[preference |-> expectedValue.MXPreference,
                            value |-> expectedValue.Target] :
                              expectedValue \in Range(expectedRecords)}
        keys == [i \in 1..Len(actualRecords) |->
                    [preference |-> actualRecords[i].Preference,
                     value |-> actualRecords[i].Mx]]
    IN  checkLoop("MX", expectedValues, keys, actualRecords)

checkTXTRecord(actualRecords, expectedRecords) ==
    LET expectedValues == {Join(expectedValue.TXTStrings, <<NUL>>) :
                              expectedValue \in Range(expectedRecords)}
        keys == [i \in 1..Len(actualRecords) |-> Join(actualRecords[i].Txt, <<NUL>>)]
    IN  checkLoop("TXT", expectedValues, keys, actualRecords)

(***************************************************************************)
(* absolutize and doCheckRecord.                                           *)
(***************************************************************************)
absolutize(domain, rel) ==
    IF rel = "@" THEN domain ELSE rel \o "." \o domain

\* mutants of the count check: only fewer, or only more, answers are a mismatch
countDiffers_onlyFewer(records, Answer) == Len(records) > Len(Answer)

countDiffers_onlyMore(records, Answer) == Len(records) < Len(Answer)

\* `len(records) != len(resp.Answer)`
countDiffers(records, Answer) == Len(records) # Len(Answer)

\* `answer.Header().Ttl > uint32(records[0].TTL)`
ttlAbove(answer, records) == Uint32Greater(Uint32(answer.Ttl), Uint32(records[1].TTL))

\* mutant of the switch: the default case returns nil
checkByType_defaultNil(recordType, Answer, records) ==
    CASE recordType = "A" -> checkARecord(Answer, records)
      [] recordType = "AAAA" -> checkAAAARecord(Answer, records)
      [] recordType = "CNAME" -> checkCNAMERecord(Answer, records)
      [] recordType = "CAA" -> checkCAARecord(Answer, records)
      [] recordType = "MX" -> checkMXRecord(Answer, records)
      [] recordType = "TXT" -> checkTXTRecord(Answer, records)
      [] OTHER -> Nil

\* the `switch recordType`
checkByType(recordType, Answer, records) ==
    CASE recordType = "A" -> checkARecord(Answer, records)
      [] recordType = "AAAA" -> checkAAAARecord(Answer, records)
      [] recordType = "CNAME" -> checkCNAMERecord(Answer, records)
      [] recordType = "CAA" -> checkCAARecord(Answer, records)
      [] recordType = "MX" -> checkMXRecord(Answer, records)
      [] recordType = "TXT" -> checkTXTRecord(Answer, records)
      [] OTHER -> UnsupportedType

doCheckRecord(ns, domain, name, records, exchange) ==
    LET recordType == records[1].Type
        q == query(ns, name, recordType, exchange)
        Answer == q.resp.Answer
        over == {i \in 1..Len(Answer) : ttlAbove(Answer[i], records)}
    IN  IF q.err.kind # "nil" THEN q.err
        ELSE IF countDiffers(records, Answer)
             THEN CountMismatch(Len(records), Len(Answer))
        ELSE IF over # {}
             THEN TTLExceeded(records[1].TTL, Answer[Min(over)].Ttl)
        ELSE checkByType(recordType, Answer, records)

(***************************************************************************)
(* SpecCheck: doCheckRecord on one expected group and one exchange.        *)
(* The inputs: a non-empty group of records of one type and name (what     *)
(* main's grouping hands to checkRecord) and any outcome of the exchange.  *)
(***************************************************************************)
Types == {"A", "AAAA", "CNAME", "CAA", "MX", "TXT"}

\* a type outside the six, as the input may carry
OtherType == "SRV"

Ceilings == {300, -1}

AnswerTtls == {300, 301}

TxtExpected ==
    { << <<97, 98>>, <<99>> >>, << <<97>>, <<98, 99>> >>, <<>>, << <<97, NUL, 98>> >> }

TxtAnswered ==
    { << <<97, 98>>, <<99>> >>, << <<97>>, <<98, 99>> >>, << <<>> >>, << <<97>>, <<98>> >> }

ExpectedPool(T) ==
    CASE T = "A" ->
           {record("A", "www", ttl, t, "", 0, <<>>) :
               ttl \in Ceilings, t \in {"1.1.1.1", "10.0.0.255"}}
      [] T = "AAAA" ->
           {record("AAAA", "www", 300, t, "", 0, <<>>) : t \in {"2001:db8::1", "::1"}}
      [] T = "CNAME" ->
           {record("CNAME", "www", 300, t, "", 0, <<>>) :
               t \in {"a.example.net.", "b.example.net."}}
      [] T = "CAA" ->
           {record("CAA", "www", 300, "letsencrypt.org", tag, 0, <<>>) :
               tag \in {"issue", "issuewild"}}
      [] T = "MX" ->
           {record("MX", "www", 300, "mx.example.net.", "", pref, <<>>) :
               pref \in {10, 20}}
      [] T = "TXT" ->
           {record("TXT", "www", 300, "", "", 0, segs) : segs \in TxtExpected}
      [] OTHER ->
           {record(T, "www", ttl, "srv.example.net.", "", 0, <<>>) : ttl \in Ceilings}

\* a record of another type in the answer section (a CNAME in front of the
\* address records, say)
Stray(T) ==
    IF T = "CNAME" THEN [RR("A", 300) EXCEPT !.A = <<1, 1, 1, 1>>]
    ELSE [RR("CNAME", 300) EXCEPT !.Target = "a.example.net."]

AnswerPool(T) ==
    {Stray(T)} \cup
    CASE T = "A" ->
           {[RR("A", ttl) EXCEPT !.A = ip] :
               ttl \in AnswerTtls, ip \in {<<1, 1, 1, 1>>, <<10, 0, 0, 255>>}}
      [] T = "AAAA" ->
           {[RR("AAAA", 300) EXCEPT !.AAAA = ip] :
               ip \in {<<8193, 3512, 0, 0, 0, 0, 0, 1>>, <<0, 0, 0, 0, 0, 0, 0, 1>>}}
      [] T = "CNAME" ->
           {[RR("CNAME", 300) EXCEPT !.Target = t] :
               t \in {"a.example.net.", "b.example.net."}}
      [] T = "CAA" ->
           {[RR("CAA", 300) EXCEPT !.Tag = tag, !.Value = "letsencrypt.org"] :
               tag \in {"issue", "issuewild"}}
      [] T = "MX" ->
           {[RR("MX", 300) EXCEPT !.Preference = pref, !.Mx = "mx.example.net."] :
               pref \in {10, 20}}
      [] T = "TXT" ->
           {[RR("TXT", 300) EXCEPT !.Txt = segs] : segs \in TxtAnswered}
      [] OTHER ->
           {[RR(T, ttl) EXCEPT !.Target = "srv.example.net."] : ttl \in AnswerTtls}

FailedExchanges ==
    {Exchange("i/o timeout", FALSE, "", <<>>),
     Exchange("", FALSE, "", <<>>),
     Exchange("", TRUE, "SERVFAIL", <<>>)}

\* the non-empty groups of records of type T
CheckGroups(T) == SeqsUpTo(ExpectedPool(T), MaxGroup) \ {<<>>}

\* the outcomes of the exchange for a query of type T
CheckExchanges(T) ==
    FailedExchanges \cup
    {Exchange("", TRUE, RcodeSuccess, a) : a \in SeqsUpTo(AnswerPool(T), MaxAnswers)}

MainIdle ==
    /\ stdin = [kind |-> "document", Domains |-> <<>>]
    /\ data = <<>>
    /\ pc = "domains"
    /\ di = 0
    /\ recordsByNameType = <<>>
    /\ pending = {}
    /\ wg = 0
    /\ failed = FALSE
    /\ workers = <<>>
    /\ stdout = <<>>
    /\ stderr = <<>>
    /\ exitCode = -1

mainVars == <<stdin, data, pc, di, recordsByNameType, pending, wg, failed, workers,
              stdout, stderr, exitCode>>

InitCheck ==
    /\ MainIdle
    /\ \E T \in Types \cup {OtherType}, n \in 1..Len(nss) :
          \E g \in CheckGroups(T), e \in CheckExchanges(T) :
             chk = [called |-> FALSE, ns |-> nss[n], domain |-> "example.com",
                    records |-> g, exchange |-> e, err |-> Nil]

\* checkRecord's call `doCheckRecord(ns, domain, absoluteName, records)`
CallDoCheckRecord ==
    /\ ~chk.called
    /\ chk' = [chk EXCEPT
                 !.called = TRUE,
                 !.err = doCheckRecord(chk.ns, chk.domain,
                                       absolutize(chk.domain, chk.records[1].Name),
                                       chk.records, chk.exchange)]
    /\ UNCHANGED mainVars

NextCheck == CallDoCheckRecord

SpecCheck == InitCheck /\ [][NextCheck]_vars

(***************************************************************************)
(* main() and the checkRecord goroutines.                                  *)
(***************************************************************************)
\* mutant of the map key: the type is left out
nameType_nameOnly(rec) == [name |-> rec.Name, typ |-> ""]

\* `nameType{name: record.Name, typ: record.Type}`
nameType(rec) == [name |-> rec.Name, typ |-> rec.Type]

\* the loop `for _, record := range domain.Records` filling recordsByNameType
RECURSIVE groupRecords(_, _, _)
groupRecords(Records, i, m) ==
    IF i > Len(Records) THEN m
    ELSE LET nt == nameType(Records[i])
         IN  groupRecords(Records, i + 1,
                 [k \in DOMAIN m \cup {nt} |->
                     IF k = nt
                     THEN (IF nt \in DOMAIN m THEN Append(m[nt], Records[i])
                           ELSE <<Records[i]>>)
                     ELSE m[k]])

\* mutant of the launch loops: only the first nameserver is checked
launches_firstNs(m) == (DOMAIN m) \X {1}

\* the launches of `for _, records := range recordsByNameType` and
\* `for _, ns := range nss`: one per key and nameserver
launches(m) == (DOMAIN m) \X (1..Len(nss))

\* Go leaves the order of the keys of a map open; the nameservers of one key
\* follow each other in the order of nss.
nextLaunch(left, m) ==
    {l \in left :
        /\ \A l2 \in left : l2[1] = l[1] => l[2] <= l2[2]
        /\ \A l2 \in left : (\E l3 \in launches(m) \ left : l3[1] = l2[1]) => l2[1] = l[1]}

\* the state of a goroutine `go checkRecord(wg, ns, domain.Name, records)`;
\* queries counts its calls of client.Exchange, printed is what it wrote
goroutine(ns, domain, records) ==
    [ns |-> ns, domain |-> domain, records |-> records, pc |-> "check",
     err |-> Nil, queries |-> 0, printed |-> <<>>]

\* mutant of the barrier: main does not wait
waitReturns_always(counter) == TRUE

\* `wg.Wait()` returns when the counter is zero
waitReturns(counter) == counter = 0

\* `if err := doCheckRecord(...); err != nil`
isFailure(err) == err.kind # "nil"

\* standard input as io.ReadAll and json.Unmarshal see it: a stream whose
\* read fails, bytes that do not parse into the struct, or a document
Unreadable == [kind |-> "unreadable", Domains |-> <<>>]

Malformed == [kind |-> "malformed", Domains |-> <<>>]

Document(Domains) == [kind |-> "document", Domains |-> Domains]

\* `records, err := io.ReadAll(os.Stdin)` and its `if err != nil`
MainReadAll ==
    /\ pc = "read"
    /\ IF stdin.kind = "unreadable"
       THEN /\ stderr' = Append(stderr, [stream |-> "stderr",
                                         text |-> "Failed to read stdin"])
            /\ exitCode' = 1
            /\ pc' = "exited"
       ELSE /\ pc' = "unmarshal"
            /\ UNCHANGED <<stderr, exitCode>>
    /\ UNCHANGED <<stdin, data, di, recordsByNameType, pending, wg, failed, workers,
                   stdout, chk>>

\* `json.Unmarshal(records, &data)` and its `if err != nil`
MainUnmarshal ==
    /\ pc = "unmarshal"
    /\ IF stdin.kind = "malformed"
       THEN /\ stderr' = Append(stderr, [stream |-> "stderr",
                                         text |-> "Failed to parse DNSControl output"])
            /\ exitCode' = 1
            /\ pc' = "exited"
            /\ data' = data
       ELSE /\ data' = stdin.Domains
            /\ pc' = "domains"
            /\ UNCHANGED <<stderr, exitCode>>
    /\ UNCHANGED <<stdin, di, recordsByNameType, pending, wg, failed, workers,
                   stdout, chk>>

\* `for _, domain := range data.Domains`: the next domain and its map
MainNextDomain ==
    /\ pc = "domains"
    /\ di < Len(data)
    /\ LET m == groupRecords(data[di + 1].Records, 1, <<>>)
       IN  /\ recordsByNameType' = m
           /\ pending' = launches(m)
           /\ pc' = IF launches(m) = {} THEN "domains" ELSE "add"
    /\ di' = di + 1
    /\ UNCHANGED <<stdin, data, wg, failed, workers, stdout, stderr, exitCode, chk>>

\* `wg.Add(1)`; main then sleeps 10 ms with the counter raised and the
\* goroutine not yet started
MainAdd ==
    /\ pc = "add"
    /\ wg' = wg + 1
    /\ pc' = "go"
    /\ UNCHANGED <<stdin, data, di, recordsByNameType, pending, failed, workers,
                   stdout, stderr, exitCode, chk>>

\* `go checkRecord(wg, ns, domain.Name, records)` after the sleep
MainGo ==
    /\ pc = "go"
    /\ \E l \in nextLaunch(pending, recordsByNameType) :
          /\ workers' = Append(workers,
                 goroutine(nss[l[2]], data[di].Name, recordsByNameType[l[1]]))
          /\ pending' = pending \ {l}
          /\ pc' = IF pending \ {l} = {} THEN "domains" ELSE "add"
    /\ UNCHANGED <<stdin, data, di, recordsByNameType, wg, failed, stdout, stderr,
                   exitCode, chk>>

\* `wg.Wait()`
MainWait ==
    /\ pc = "domains"
    /\ di = Len(data)
    /\ waitReturns(wg)
    /\ pc' = "load"
    /\ UNCHANGED <<stdin, data, di, recordsByNameType, pending, wg, failed, workers,
                   stdout, stderr, exitCode, chk>>

\* `if failed.Load() { os.Exit(1) }` and the final line
MainExit ==
    /\ pc = "load"
    /\ IF failed
       THEN exitCode' = 1 /\ stdout' = stdout
       ELSE exitCode' = 0 /\ stdout' = Append(stdout, "\nAll checks passed\n")
    /\ pc' = "exited"
    /\ UNCHANGED <<stdin, data, di, recordsByNameType, pending, wg, failed, workers,
                   stderr, chk>>

\* what the nameserver may do with the query of a goroutine
RunExchanges(records) ==
    {Exchange("i/o timeout", FALSE, "", <<>>),
     Exchange("", TRUE, RcodeSuccess, <<>>),
     Exchange("", TRUE, RcodeSuccess,
              [i \in 1..Len(records) |-> [RR("A", 300) EXCEPT !.A = <<1, 1, 1, 1>>]])}

\* checkRecord up to the sending of its query: absolutize, doCheckRecord,
\* query, and client.Exchange, in which the goroutine then waits
WorkerQuery(w) ==
    /\ exitCode = -1
    /\ workers[w].pc = "check"
    /\ workers' = [workers EXCEPT ![w].queries = @ + 1, ![w].pc = "exchange"]
    /\ UNCHANGED <<stdin, data, pc, di, recordsByNameType, pending, wg, failed,
                   stdout, stderr, exitCode, chk>>

\* client.Exchange returns: the rest of doCheckRecord, then the failure line
\* on stderr or the "." on stdout.  An index out of range panics: the
\* goroutine unwinds through its deferred call.
WorkerPrint(w) ==
    /\ exitCode = -1
    /\ workers[w].pc = "exchange"
    /\ \E exchange \in RunExchanges(workers[w].records) :
          LET g == workers[w]
              absoluteName == absolutize(g.domain, g.records[1].Name)
              err == doCheckRecord(g.ns, g.domain, absoluteName, g.records, exchange)
              line == [stream |-> "stderr", Type |-> g.records[1].Type,
                       absoluteName |-> absoluteName, ns |-> g.ns, err |-> err]
              dot == [stream |-> "stdout", text |-> "."]
          IN  IF err.kind = "panic"
              THEN /\ workers' = [workers EXCEPT ![w].err = err, ![w].pc = "panicking"]
                   /\ UNCHANGED <<stdout, stderr>>
              ELSE IF isFailure(err)
              THEN /\ workers' = [workers EXCEPT ![w].err = err,
                                                 ![w].printed = Append(@, line),
                                                 ![w].pc = "store"]
                   /\ stderr' = Append(stderr, line)
                   /\ stdout' = stdout
              ELSE /\ workers' = [workers EXCEPT ![w].err = err,
                                                 ![w].printed = Append(@, dot),
                                                 ![w].pc = "defer"]
                   /\ stdout' = Append(stdout, ".")
                   /\ stderr' = stderr
    /\ UNCHANGED <<stdin, data, pc, di, recordsByNameType, pending, wg, failed,
                   exitCode, chk>>

\* `failed.Store(true)`
WorkerStore(w) ==
    /\ exitCode = -1
    /\ workers[w].pc = "store"
    /\ failed' = TRUE
    /\ workers' = [workers EXCEPT ![w].pc = "defer"]
    /\ UNCHANGED <<stdin, data, pc, di, recordsByNameType, pending, wg, stdout, stderr,
                   exitCode, chk>>

\* `defer wg.Done()`: at the return of checkRecord, or while a panic unwinds
\* the goroutine; the unrecovered panic then ends the process with status 2
WorkerDone(w) ==
    /\ exitCode = -1
    /\ workers[w].pc \in {"defer", "panicking", "crashing"}
    /\ IF workers[w].pc = "crashing"
       THEN /\ stderr' = Append(stderr, [stream |-> "stderr",
                                         text |-> "panic: runtime error"])
            /\ exitCode' = 2
            /\ pc' = "exited"
            /\ UNCHANGED <<wg, workers>>
       ELSE /\ wg' = wg - 1
            /\ workers' = [workers EXCEPT
                  ![w].pc = IF @ = "panicking" THEN "crashing" ELSE "finished"]
            /\ UNCHANGED <<exitCode, pc, stderr>>
    /\ UNCHANGED <<stdin, data, di, recordsByNameType, pending, failed, stdout, chk>>

(***************************************************************************)
(* Spec: a whole run.  Standard input is unreadable, malformed, or a       *)
(* document: one domain with records at its apex, one domain with a record *)
(* at its apex and one at www, or two domains with records at their apex,  *)
(* of at most MaxRecords records in all.                                   *)
(***************************************************************************)
RunRecord(name) == record("A", name, 300, "1.1.1.1", "", 0, <<>>)

ApexPool == {RunRecord("@")}

RunInputs ==
    {<<>>}
    \cup {<<[Name |-> "example.com", Records |-> rs]>> :
             rs \in SeqsUpTo(ApexPool, MaxRecords)}
    \cup {<<[Name |-> "example.com",
             Records |-> <<RunRecord("@"), RunRecord("www")>>]>>}
    \cup {<<[Name |-> "example.com", Records |-> l[1]],
            [Name |-> "example.org", Records |-> l[2]]>> :
             l \in {x \in SeqsUpTo(ApexPool, MaxRecords) \X SeqsUpTo(ApexPool, MaxRecords) :
                       Len(x[1]) + Len(x[2]) <= MaxRecords}}

ChkIdle == chk = [called |-> FALSE]

\* the state at the entry of main()
MainEntry ==
    /\ data = <<>>
    /\ pc = "read"
    /\ di = 0
    /\ recordsByNameType = <<>>
    /\ pending = {}
    /\ wg = 0
    /\ failed = FALSE
    /\ workers = <<>>
    /\ stdout = <<>>
    /\ stderr = <<>>
    /\ exitCode = -1
    /\ ChkIdle

Init ==
    /\ stdin \in {Unreadable, Malformed} \cup {Document(d) : d \in RunInputs}
    /\ MainEntry

Next ==
    \/ MainReadAll
    \/ MainUnmarshal
    \/ MainNextDomain
    \/ MainAdd
    \/ MainGo
    \/ MainWait
    \/ MainExit
    \/ \E w \in 1..Len(workers) : WorkerQuery(w)
    \/ \E w \in 1..Len(workers) : WorkerPrint(w)
    \/ \E w \in 1..Len(workers) : WorkerStore(w)
    \/ \E w \in 1..Len(workers) : WorkerDone(w)

Spec == Init /\ [][Next]_vars

(***************************************************************************)
(* SpecGroup: main's reading, grouping and launching of one domain whose   *)
(* records vary in name, type and value; the goroutines are not scheduled. *)
(***************************************************************************)
GroupRecordPool ==
    {record(type, name, 300, target, "", 0, <<>>) :
        type \in {"A", "TXT"}, name \in {"@", "www"}, target \in {"1.1.1.1", "2.2.2.2"}}

InitGroup ==
    /\ stdin \in {Unreadable, Malformed}
                 \cup {Document(<<[Name |-> "example.com", Records |-> rs]>>) :
                          rs \in SeqsUpTo(GroupRecordPool, MaxGroupRecords)}
    /\ MainEntry

NextGroup ==
    \/ MainReadAll
    \/ MainUnmarshal
    \/ MainNextDomain
    \/ MainAdd
    \/ MainGo

SpecGroup == InitGroup /\ [][NextGroup]_vars

(***************************************************************************)
(* Properties of a run, stated over Spec and SpecGroup.                    *)
(***************************************************************************)
Count(x, seq) == Cardinality({i \in 1..Len(seq) : seq[i] = x})

\* the domains of the input document (none when the input does not load)
Input == stdin.Domains

InputLoaded == stdin.kind = "document"

\* the (name, type) pairs occurring among the records of domain d
KeysOf(d) == {[name |-> r.Name, typ |-> r.Type] : r \in Range(Input[d].Records)}

RECURSIVE Members(_, _)
Members(Records, k) ==
    IF Records = <<>> THEN <<>>
    ELSE IF Head(Records).Name = k.name /\ Head(Records).Type = k.typ
         THEN <<Head(Records)>> \o Members(Tail(Records), k)
         ELSE Members(Tail(Records), k)

\* one check per domain, (name, type) pair of the domain, and nameserver
ExpectedChecks ==
    UNION {{<<d, k, n>> : k \in KeysOf(d), n \in 1..Len(nss)} : d \in 1..Len(Input)}

IsCheckOf(w, c) ==
    /\ workers[w].ns = nss[c[3]]
    /\ workers[w].domain = Input[c[1]].Name
    /\ workers[w].records = Members(Input[c[1]].Records, c[2])

Launched(c) == {w \in 1..Len(workers) : IsCheckOf(w, c)}

FailureOutcome(w) ==
    Len(workers[w].printed) >= 1 /\ workers[w].printed[1].stream = "stderr"

SuccessOutcome(w) ==
    Len(workers[w].printed) >= 1 /\ workers[w].printed[1].stream = "stdout"

\* the outcomes on the two streams: the "." markers and the failure lines
Markers == {i \in 1..Len(stdout) : stdout[i] = "."}

FailureLines == {i \in 1..Len(stderr) : "ns" \in DOMAIN stderr[i]}

MainPastWait == pc \in {"load", "exited"}

\* the goroutines that have not yet run their deferred wg.Done()
Live == {w \in 1..Len(workers) : workers[w].pc \notin {"finished", "crashing"}}

InvC3 ==
    /\ exitCode # 2
    /\ \A w \in 1..Len(workers) :
          /\ workers[w].queries = IF workers[w].pc = "check" THEN 0 ELSE 1
          /\ Len(workers[w].printed)
                = IF workers[w].pc \in {"check", "exchange"} THEN 0 ELSE 1
          /\ \E c \in ExpectedChecks : IsCheckOf(w, c)
    /\ \A c \in ExpectedChecks : Cardinality(Launched(c)) <= 1
    /\ Cardinality(Markers) = Cardinality({w \in 1..Len(workers) : SuccessOutcome(w)})
    /\ Cardinality(FailureLines)
          = Cardinality({w \in 1..Len(workers) : FailureOutcome(w)})
    /\ \A w \in 1..Len(workers) :
          FailureOutcome(w) => \E i \in FailureLines : stderr[i] = workers[w].printed[1]
    /\ (MainPastWait /\ InputLoaded) =>
          /\ \A c \in ExpectedChecks : Cardinality(Launched(c)) = 1
          /\ Len(workers) = Cardinality(ExpectedChecks)
          /\ \A w \in 1..Len(workers) :
                /\ workers[w].pc = "finished"
                /\ workers[w].queries = 1
                /\ Len(workers[w].printed) = 1
          /\ Cardinality(Markers) + Cardinality(FailureLines)
                = Cardinality(ExpectedChecks)
    /\ ~InputLoaded => workers = <<>> /\ Markers = {} /\ FailureLines = {}

\* a step leaves every goroutine in the list, touches at most one of them and
\* never changes an outcome once printed
StepC3 ==
    /\ Len(workers') >= Len(workers)
    /\ \A w \in 1..Len(workers) :
          /\ workers[w].printed # <<>> => workers'[w].printed = workers[w].printed
          /\ workers'[w] # workers[w] =>
                \A v \in 1..Len(workers) : v # w => workers'[v] = workers[v]
    /\ Len(stdout') >= Len(stdout) /\ SubSeq(stdout', 1, Len(stdout)) = stdout
    /\ Len(stderr') >= Len(stderr) /\ SubSeq(stderr', 1, Len(stderr)) = stderr

\* C3: every (nameserver, group) pair is launched once, issues one query and
\* produces one outcome, whatever the other checks do; when main is past
\* wg.Wait() there are exactly |groups| x |nameservers| outcomes.
TheoremC3 == []InvC3 /\ [][StepC3]_vars

\* a finished run of four checks with a success, a query error and a
\* validation failure side by side
WitnessC3 ==
    /\ pc = "exited"
    /\ Len(workers) = 4
    /\ Cardinality(Markers) + Cardinality(FailureLines) = 4
    /\ \E w \in 1..Len(workers) : SuccessOutcome(w)
    /\ \E w \in 1..Len(workers) :
          FailureOutcome(w) /\ workers[w].err.kind = "QueryError"
    /\ \E w \in 1..Len(workers) :
          FailureOutcome(w) /\ workers[w].err.kind = "CountMismatch"

\* the barrier and the flag: the counter covers every goroutine that has not
\* run its wg.Done() and the one main is about to start; a stored failure is
\* in the flag; past wg.Wait() every check was launched and has finished and
\* the flag is true iff some check printed a failure
InvBarrier ==
    /\ wg = Cardinality(Live) + (IF pc = "go" THEN 1 ELSE 0)
    /\ \A w \in 1..Len(workers) :
          (FailureOutcome(w) /\ workers[w].pc \in {"defer", "finished"}) => failed
    /\ failed => \E w \in 1..Len(workers) : FailureOutcome(w)
    /\ MainPastWait =>
          /\ Len(workers) = Cardinality(ExpectedChecks)
          /\ \A w \in 1..Len(workers) : workers[w].pc = "finished"
          /\ failed <=> \E w \in 1..Len(workers) : FailureOutcome(w)

\* the run reports success exactly when no outcome is a failure
ReportsSuccessIffNoFailure ==
    /\ exitCode \in {0, 1}
    /\ exitCode = 0 <=> \A w \in 1..Len(workers) : ~FailureOutcome(w)
    /\ exitCode = 0 <=> "\nAll checks passed\n" \in Range(stdout)

\* C4 as stated: main reads the failure flag only after every launched
\* goroutine has finished; the flag is then true iff some check produced a
\* failure; it is never cleared; every run reports success exactly when no
\* outcome is a failure.
ClaimC4 ==
    /\ [](InvBarrier /\ (pc = "exited" => ReportsSuccessIffNoFailure))
    /\ [][failed => failed']_vars

\* C4, amended: the barrier and the flag as stated; a run whose input was read
\* and parsed reports success exactly when no outcome is a failure; a run
\* whose input cannot be read or parsed reports failure without any outcome.
TheoremC4 ==
    /\ [](/\ InvBarrier
          /\ (pc = "exited" /\ InputLoaded) => ReportsSuccessIffNoFailure
          /\ (pc = "exited" /\ ~InputLoaded) =>
                /\ exitCode = 1
                /\ workers = <<>>
                /\ stdout = <<>>)
    /\ [][failed => failed']_vars

\* a finished run that exits 1 with successes and a failure among its checks,
\* all of them finished
WitnessC4 ==
    /\ pc = "exited"
    /\ InputLoaded
    /\ exitCode = 1
    /\ \E w \in 1..Len(workers) : SuccessOutcome(w)
    /\ \E w \in 1..Len(workers) : FailureOutcome(w)
    /\ \A w \in 1..Len(workers) : workers[w].pc = "finished"

\* C7: the map built for a domain is a partition of its records by
\* (absolutized name, type): every record is in exactly one group as often as
\* in the input, no group is empty, two records share a group iff they have
\* the same type and absolutized name, and no records means no groups and no
\* checks.
TheoremC7 ==
    (di = 1 /\ Len(data) = 1) =>
        LET domain == data[1].Name
            Records == data[1].Records
            m == recordsByNameType
        IN  /\ \A r \in Range(Records) :
                  \E k \in DOMAIN m :
                     /\ Count(r, m[k]) = Count(r, Records)
                     /\ \A k2 \in DOMAIN m \ {k} : Count(r, m[k2]) = 0
            /\ \A k \in DOMAIN m : m[k] # <<>> /\ Range(m[k]) \subseteq Range(Records)
            /\ \A r1, r2 \in Range(Records) :
                  (\E k \in DOMAIN m : r1 \in Range(m[k]) /\ r2 \in Range(m[k]))
                     <=> /\ r1.Type = r2.Type
                         /\ absolutize(domain, r1.Name) = absolutize(domain, r2.Name)
            /\ absolutize(domain, "@") = domain
            /\ absolutize(domain, "www") = "www.example.com"
            /\ Records = <<>> => DOMAIN m = {} /\ pending = {} /\ workers = <<>>

\* a domain grouped into several groups, one of them with several records
WitnessC7 ==
    /\ di = 1 /\ Len(data) = 1
    /\ Cardinality(DOMAIN recordsByNameType) >= 2
    /\ \E k \in DOMAIN recordsByNameType : Len(recordsByNameType[k]) >= 2
    /\ pending = {}

(***************************************************************************)
(* Properties of doCheckRecord, stated over SpecCheck.                     *)
(***************************************************************************)
Answers == chk.exchange.Answer

QuerySucceeded ==
    chk.exchange.err = "" /\ chk.exchange.hasResp /\ chk.exchange.Rcode = "NOERROR"

GroupType == chk.records[1].Type

\* the type-specific check ran: the query and both pre-checks let the call through
TypeCheckRan ==
    /\ chk.called
    /\ GroupType \in Types
    /\ chk.err.kind \notin {"QueryError", "CountMismatch", "TTLExceeded"}

\* the comparison keys of the specification's table
KeyOfExpected(r) ==
    CASE r.Type = "CAA" -> <<r.CAATag, r.Target>>
      [] r.Type = "MX" -> <<r.MXPreference, r.Target>>
      [] r.Type = "TXT" -> Join(r.TXTStrings, <<NUL>>)
      [] OTHER -> r.Target

KeyOfAnswer(rr) ==
    CASE rr.Rrtype = "A" -> IPString(rr.A)
      [] rr.Rrtype = "AAAA" -> IPString(rr.AAAA)
      [] rr.Rrtype = "CNAME" -> rr.Target
      [] rr.Rrtype = "CAA" -> <<rr.Tag, rr.Value>>
      [] rr.Rrtype = "MX" -> <<rr.Preference, rr.Mx>>
      [] rr.Rrtype = "TXT" -> Join(rr.Txt, <<NUL>>)

AllExpectedKeys == {KeyOfExpected(r) : r \in Range(chk.records)}

AllAnswerKeys == {KeyOfAnswer(rr) : rr \in Range(Answers)}

Succeeds(err) == err.kind = "nil"

\* C1: once the count and TTL checks have passed and every answer has the
\* payload type of the group, the check succeeds iff the keys of ALL expected
\* records equal, as a set, the keys of ALL answers, and fails with
\* ValueMismatch otherwise.
ClaimC1 ==
    (TypeCheckRan /\ \A rr \in Range(Answers) : rr.Rrtype = GroupType)
        => /\ Succeeds(chk.err) <=> (AllExpectedKeys = AllAnswerKeys)
           /\ ~Succeeds(chk.err) => chk.err.kind = "ValueMismatch"

\* C2: reordering the answers, or the members of a group that share one TTL
\* ceiling, never turns a Success into a Failure or a Failure into a Success.
ClaimC2 ==
    chk.called =>
        /\ \A p \in Perms(Len(Answers)) :
              Succeeds(doCheckRecord(chk.ns, chk.domain,
                                     absolutize(chk.domain, chk.records[1].Name),
                                     chk.records,
                                     [chk.exchange EXCEPT !.Answer = Permuted(Answers, p)]))
                  <=> Succeeds(chk.err)
        /\ (\A r \in Range(chk.records) : r.TTL = chk.records[1].TTL) =>
              \A p \in Perms(Len(chk.records)) :
                 Succeeds(doCheckRecord(chk.ns, chk.domain,
                                        absolutize(chk.domain, chk.records[1].Name),
                                        Permuted(chk.records, p), chk.exchange))
                     <=> Succeeds(chk.err)

\* C5: after a successful query, a wrong number of answers always yields
\* CountMismatch(expected count, actual count), whatever the TTLs, payload
\* types, values and record type; an equal number never yields CountMismatch.
TheoremC5 ==
    (chk.called /\ QuerySucceeded) =>
        IF Len(chk.records) # Len(Answers)
        THEN /\ chk.err.kind = "CountMismatch"
             /\ chk.err = CountMismatch(Len(chk.records), Len(Answers))
        ELSE chk.err.kind # "CountMismatch"

\* the count is wrong while an answer also has a TTL above the ceiling and
\* another payload type, and the outcome is CountMismatch
WitnessC5 ==
    /\ chk.called /\ QuerySucceeded
    /\ Len(chk.records) # Len(Answers)
    /\ \E rr \in Range(Answers) : rr.Ttl > chk.records[1].TTL /\ chk.records[1].TTL > 0
    /\ \E rr \in Range(Answers) : rr.Rrtype # GroupType
    /\ chk.err.kind = "CountMismatch"

\* C6: with the query succeeded and the counts equal, the outcome is
\* TTLExceeded(ceiling, actual) if some answer's TTL is greater than the first
\* member's ceiling, and is not TTLExceeded if every answer's TTL is at most
\* that ceiling, for every integer ceiling.
ClaimC6 ==
    (chk.called /\ QuerySucceeded /\ Len(chk.records) = Len(Answers)) =>
        IF \E rr \in Range(Answers) : rr.Ttl > chk.records[1].TTL
        THEN chk.err.kind = "TTLExceeded" /\ chk.err.ceiling = chk.records[1].TTL
        ELSE chk.err.kind # "TTLExceeded"

\* C8: a TXT answer whose sequence of character-strings differs from the one
\* expected TXT record's sequence is never accepted.
ClaimC8 ==
    (/\ chk.called /\ GroupType = "TXT" /\ Succeeds(chk.err)
     /\ Len(chk.records) = 1 /\ Len(Answers) = 1)
        => Answers[1].Txt = chk.records[1].TXTStrings

\* C9 as stated: a group of an unsupported type always ends in the failure
\* UnsupportedType, whatever the nameserver answers.
ClaimC9 ==
    (chk.called /\ GroupType \notin Types) => chk.err.kind = "UnsupportedType"

\* C9, amended: a group of an unsupported type always ends in a failure; the
\* reason is UnsupportedType exactly when the query succeeded, the answer count
\* equals the group size and no answer's TTL is above the first member's
\* ceiling as an unsigned 32-bit value; otherwise it is the query error,
\* CountMismatch or TTLExceeded of the earlier step.
TheoremC9 ==
    (chk.called /\ GroupType \notin Types) =>
        /\ chk.err.kind \in {"QueryError", "CountMismatch", "TTLExceeded", "UnsupportedType"}
        /\ chk.err.kind = "UnsupportedType" <=>
              /\ QuerySucceeded
              /\ Len(chk.records) = Len(Answers)
              /\ \A rr \in Range(Answers) :
                    ~Uint32Greater(Uint32(rr.Ttl), Uint32(chk.records[1].TTL))
        /\ ~QuerySucceeded => chk.err.kind = "QueryError"
        /\ (QuerySucceeded /\ Len(chk.records) # Len(Answers))
              => chk.err.kind = "CountMismatch"

\* an unsupported group whose answers passed the pre-checks, failing with
\* UnsupportedType
WitnessC9 ==
    /\ chk.called /\ GroupType \notin Types
    /\ QuerySucceeded /\ Len(Answers) = Len(chk.records)
    /\ chk.err.kind = "UnsupportedType"

\* C10: no call reads past the end of the answers: when a type-specific check
\* runs, the number of distinct expected keys (the loop bound) is at most the
\* number of answers, and no call ends in an index-out-of-range panic.
TheoremC10 ==
    /\ chk.called => chk.err.kind # "panic"
    /\ TypeCheckRan => Cardinality(AllExpectedKeys) <= Len(Answers)

\* a type-specific check ran on a group with fewer distinct keys than members
WitnessC10 ==
    /\ TypeCheckRan
    /\ Cardinality(AllExpectedKeys) < Len(chk.records)
    /\ Len(Answers) = Len(chk.records)

====
